---- MODULE Spec2Model ----
(***************************************************************************)
(* The int_stack character device (int_stack.c) and its command-line      *)
(* front end (lab4/kernel_stack.c).  One global stack (buf, top, max)      *)
(* protected by one mutex; read pops, write pushes, ioctl(IOC_SET_SIZE)    *)
(* reallocates.  Every statement that touches the shared stack is one      *)
(* step of the calling process, so interleavings of callers are explicit.  *)
(***************************************************************************)
EXTENDS Integers, Sequences, FiniteSets, TLC

(* ------------------------------ bounds -------------------------------- *)
NumCallers == 2
MaxVal == 2
MaxSize == 2
MaxCalls == 3
MaxSeqCalls == 5
NumBufs == 2

Callers == 1..NumCallers
Values == 1..MaxVal
BufIds == 1..NumBufs

(* ------------------------- program constants -------------------------- *)
DEFAULT_SIZE == 1024
SIZEOF_INT == 4
EFAULT == 14
EINVAL == 22
ENOMEM == 12
ENOTTY == 25
ERANGE == 34
IOC_MAGIC == 115
OTHER_MAGIC == IOC_MAGIC + 1
IOC_WRITE == 1
MAGIC == 115
ENOENT == 2

Pow2(n) == 2 ^ n

\* _IOC(dir, type, nr, size) of <asm-generic/ioctl.h>, as _IOW expands to it
IOC(dir, type, nr, size) == dir * Pow2(30) + size * Pow2(16) + type * Pow2(8) + nr
IOC_TYPE(cmd) == (cmd \div Pow2(8)) % Pow2(8)
IOC_SET_SIZE == IOC(IOC_WRITE, IOC_MAGIC, 1, SIZEOF_INT)
SET_SIZE == IOC(IOC_WRITE, MAGIC, 1, SIZEOF_INT)

\* the request codes a caller may pass: the one the driver knows, another
\* number under the same magic, and a code of a foreign magic
Cmds == {IOC_SET_SIZE, IOC(IOC_WRITE, IOC_MAGIC, 2, SIZEOF_INT),
         IOC(IOC_WRITE, OTHER_MAGIC, 1, SIZEOF_INT)}

NoOwner == 0
NullBuf == 0

VARIABLES
    buf,        \* my_stack.buf: the id of the heap block holding the entries
    top,        \* my_stack.top: next free index
    max,        \* my_stack.max: max entries
    lock,       \* my_stack.lock: NoOwner or the caller holding it
    heap,       \* kernel heap: block id -> [live, size, cells]
    pc,         \* where each caller is inside its system call or command
    call,       \* the system call each caller is in, with its arguments
    val,        \* local `val` of stack_read / stack_write
    new_max,    \* local `new_max` of stack_ioctl
    new_buf,    \* local `new_buf` of stack_ioctl
    idx,        \* the s->top a `s->top++` / `s->top--` has loaded
    ret,        \* value the system call returns
    printed,    \* the size stack_ioctl's pr_info printed
    ubuf,       \* the int the caller's user buffer holds after a read
    cli,        \* the kernel_stack command a caller runs ("raw": none)
    out,        \* lines the command printed on stdout
    calls,      \* number of calls / commands started so far
    pre,        \* history: the stack as the current guard holder found it
    seq_stack,  \* history: the sequential reference stack
    expect,     \* history: what the reference stack answered each caller
    unpopped,   \* history: values pushed and not yet popped, oldest first
    run         \* history: how the stack was when a caller's `unwind` began,
                \* and what the other callers have done to the count since

kern == <<buf, top, max, lock, heap>>
locals == <<val, new_max, new_buf, idx>>
user == <<ubuf, cli, out, calls>>
hist == <<pre, seq_stack, expect, unpopped>>
vars == <<kern, pc, call, locals, ret, printed, user, hist, run>>

(* ------------------------------- heap --------------------------------- *)
NoCells == [i \in {} |-> 0]
FreeBlock == [live |-> FALSE, size |-> 0, cells |-> NoCells]

\* block b is allocated and index i lies inside it
Valid(h, b, i) == b \in BufIds /\ h[b].live /\ i >= 0 /\ i < h[b].size

\* cell i of block b has been written since the block was allocated
Written(h, b, i) == Valid(h, b, i) /\ i \in DOMAIN h[b].cells

\* the values a load of b[i] can produce: the stored one, or anything when
\* the cell is uninitialised, out of bounds or in a freed block
Load(h, b, i) == IF Written(h, b, i) THEN {h[b].cells[i]} ELSE 0..MaxVal

\* the heaps a store b[i] = v can produce; a store out of bounds or into a
\* freed block is lost or lands on some written cell of a live block
Store(h, b, i, v) ==
    IF Valid(h, b, i)
    THEN {[h EXCEPT ![b].cells =
              [j \in DOMAIN @ \cup {i} |-> IF j = i THEN v ELSE @[j]]]}
    ELSE {h} \cup {[h EXCEPT ![x[1]].cells[x[2]] = v] :
                      x \in {y \in BufIds \X (0..MaxCalls) :
                                Written(h, y[1], y[2])}}

\* memcpy(dst, src, n * sizeof(int)): cells [0, n) of src land in dst; a
\* source cell that cannot be read leaves the destination cell unwritten
Memcpy(h, dst, src, n) ==
    IF dst \in BufIds /\ h[dst].live
    THEN [h EXCEPT ![dst].cells =
            [j \in (DOMAIN @ \cup {i \in 0..(n - 1) : Written(h, src, i)})
                  \cap 0..(h[dst].size - 1) |->
                IF j < n /\ Written(h, src, j) THEN h[src].cells[j] ELSE @[j]]]
    ELSE h

\* kmalloc_array(n, sizeof(int), GFP_KERNEL): the block it can return. Block
\* ids are interchangeable, so the free block of lowest id stands for any
Kmalloc(h) == {b \in BufIds : ~h[b].live /\ \A c \in 1..(b - 1) : h[c].live}
Allocated(h, b, n) == [h EXCEPT ![b] = [live |-> TRUE, size |-> n, cells |-> NoCells]]

\* kfree(b); freeing a block that is not allocated leaves the heap as it is
Kfree(h, b) == IF b \in BufIds /\ h[b].live THEN [h EXCEPT ![b] = FreeBlock] ELSE h

(* ------------------------------ mutex --------------------------------- *)
\* (variant: the guard is taken without waiting for its holder)
mutex_lock_nowait(p) == lock' = p

mutex_lock(p) == lock = NoOwner /\ lock' = p
mutex_unlock(p) == lock' = NoOwner

(* ----------------------- system call entry ---------------------------- *)
NoCall == [op |-> "none", cnt |-> 0, ok |-> TRUE, uval |-> 0, cmd |-> 0]

\* leave the system call with return value r
Return(p, r) == pc' = [pc EXCEPT ![p] = "ret"] /\ ret' = [ret EXCEPT ![p] = r]

Goto(p, label) == pc' = [pc EXCEPT ![p] = label]

\* stack_read up to its mutex_lock: the size check
stack_read_entry(p, cnt, ok) ==
    /\ call' = [call EXCEPT ![p] =
                  [op |-> "read", cnt |-> cnt, ok |-> ok, uval |-> 0, cmd |-> 0]]
    /\ IF cnt < SIZEOF_INT
       THEN Return(p, 0 - EINVAL)
       ELSE Goto(p, "r_lock") /\ UNCHANGED ret
    /\ UNCHANGED <<val, new_max, new_buf, idx>>

\* stack_write up to its mutex_lock: the size check and copy_from_user
stack_write_entry(p, cnt, ok, v) ==
    /\ call' = [call EXCEPT ![p] =
                  [op |-> "write", cnt |-> cnt, ok |-> ok, uval |-> v, cmd |-> 0]]
    /\ IF cnt < SIZEOF_INT
       THEN Return(p, 0 - EINVAL) /\ UNCHANGED val
       ELSE IF ~ok
       THEN Return(p, 0 - EFAULT) /\ UNCHANGED val
       ELSE Goto(p, "w_lock") /\ val' = [val EXCEPT ![p] = v] /\ UNCHANGED ret
    /\ UNCHANGED <<new_max, new_buf, idx>>

\* (variant: a new size of 0 is let through)
stack_ioctl_entry_no_zero_check(p, cmd, ok, n) ==
    /\ call' = [call EXCEPT ![p] =
                  [op |-> "ioctl", cnt |-> 0, ok |-> ok, uval |-> n, cmd |-> cmd]]
    /\ IF IOC_TYPE(cmd) # IOC_MAGIC \/ cmd # IOC_SET_SIZE
       THEN Return(p, 0 - ENOTTY) /\ UNCHANGED new_max
       ELSE IF ~ok
       THEN Return(p, 0 - EFAULT) /\ UNCHANGED new_max
       ELSE Goto(p, "i_lock") /\ new_max' = [new_max EXCEPT ![p] = n]
                              /\ UNCHANGED ret
    /\ UNCHANGED <<val, new_buf, idx>>

\* stack_ioctl up to its mutex_lock: the magic check, the switch,
\* copy_from_user of the new size and the zero check
stack_ioctl_entry(p, cmd, ok, n) ==
    /\ call' = [call EXCEPT ![p] =
                  [op |-> "ioctl", cnt |-> 0, ok |-> ok, uval |-> n, cmd |-> cmd]]
    /\ IF IOC_TYPE(cmd) # IOC_MAGIC
       THEN Return(p, 0 - ENOTTY) /\ UNCHANGED new_max
       ELSE IF cmd # IOC_SET_SIZE
       THEN Return(p, 0 - ENOTTY) /\ UNCHANGED new_max
       ELSE IF ~ok
       THEN Return(p, 0 - EFAULT) /\ UNCHANGED new_max
       ELSE IF n = 0
       THEN Return(p, 0 - EINVAL) /\ new_max' = [new_max EXCEPT ![p] = n]
       ELSE Goto(p, "i_lock") /\ new_max' = [new_max EXCEPT ![p] = n]
                              /\ UNCHANGED ret
    /\ UNCHANGED <<val, new_buf, idx>>

(* ------------------- the sequential reference stack ------------------- *)
Min(a, b) == IF a < b THEN a ELSE b

SeqPush(s, v) ==
    IF Len(s.items) >= s.cap
    THEN [st |-> s, ret |-> 0 - ERANGE]
    ELSE [st |-> [s EXCEPT !.items = Append(@, v)], ret |-> SIZEOF_INT]

\* `ok`: the caller's buffer can take the value; `old`: what it holds
SeqPop(s, ok, old) ==
    IF Len(s.items) = 0
    THEN [st |-> s, ret |-> 0, out |-> old]
    ELSE [st |-> [s EXCEPT !.items = SubSeq(@, 1, Len(@) - 1)],
          ret |-> IF ok THEN SIZEOF_INT ELSE 0 - EFAULT,
          out |-> IF ok THEN s.items[Len(s.items)] ELSE old]

\* `got`: the allocation of the new storage succeeded
SeqResize(s, n, got) ==
    IF ~got
    THEN [st |-> s, ret |-> 0 - ENOMEM]
    ELSE [st |-> [items |-> SubSeq(s.items, 1, Min(Len(s.items), n)), cap |-> n],
          ret |-> 0]

\* the live contents of the device's stack, bottom first
Contents == [i \in 1..top |-> IF Written(heap, buf, i - 1)
                              THEN heap[buf].cells[i - 1] ELSE 0 - 1]
Abs == [items |-> Contents, cap |-> max]

Snapshot == [buf |-> buf, top |-> top, max |-> max, items |-> Contents]

Answer(p, r, o) ==
    expect' = [expect EXCEPT ![p] = [ret |-> r, out |-> o]]

(* ---------------------- history of an `unwind` ------------------------- *)
NoRun == [items |-> <<>>, pushed |-> FALSE, taken |-> FALSE]

\* what a command that starts now finds: the entries below the count (while
\* a resize is between kfree and the swap of s->buf they are the entries it
\* found, cut to the count)
Started ==
    [items |-> IF buf \in BufIds /\ heap[buf].live THEN Contents
               ELSE SubSeq(pre.items, 1, top),
     pushed |-> FALSE, taken |-> FALSE]

\* caller q changes the count: every other caller's running `unwind` notes
\* whether the count went up ("pushed") or down ("taken")
Disturbed(q, how) ==
    [p \in Callers |->
        IF p # q /\ cli[p].cmd = "unwind"
        THEN [run[p] EXCEPT ![how] = TRUE]
        ELSE run[p]]

(* ----------------------------- stack_write ----------------------------- *)
\* (variant: the push goes ahead without taking the guard)
write_lock_skipped(p) ==
    /\ pc[p] = "w_lock"
    /\ Goto(p, "w_check")
    /\ UNCHANGED <<kern, call, locals, ret, printed, user, hist, run>>

write_lock(p) ==
    /\ pc[p] = "w_lock"
    /\ mutex_lock(p)
    /\ Goto(p, "w_check")
    /\ pre' = Snapshot
    /\ UNCHANGED <<buf, top, max, heap, call, locals, ret, printed, user,
                   seq_stack, expect, unpopped, run>>

\* (variant: the fullness test is `>` where the code has `>=`)
write_check_off_by_one(p) ==
    /\ pc[p] = "w_check"
    /\ Goto(p, IF top > max THEN "w_full" ELSE "w_top")
    /\ UNCHANGED <<kern, call, locals, ret, printed, user, hist, run>>

write_check(p) ==
    /\ pc[p] = "w_check"
    /\ Goto(p, IF top >= max THEN "w_full" ELSE "w_top")
    /\ UNCHANGED <<kern, call, locals, ret, printed, user, hist, run>>

write_full(p) ==
    /\ pc[p] = "w_full"
    /\ mutex_unlock(p)
    /\ pre' = Snapshot
    /\ Return(p, 0 - ERANGE)
    /\ seq_stack' = SeqPush(seq_stack, val[p]).st
    /\ Answer(p, SeqPush(seq_stack, val[p]).ret, ubuf[p])
    /\ UNCHANGED <<buf, top, max, heap, call, locals, printed, user, unpopped, run>>

\* s->buf[s->top++] = val: the load of s->top ...
write_top(p) ==
    /\ pc[p] = "w_top"
    /\ idx' = [idx EXCEPT ![p] = top]
    /\ Goto(p, "w_store")
    /\ UNCHANGED <<kern, call, val, new_max, new_buf, ret, printed, user, hist, run>>

\* (variant: s->buf[++s->top] = val, the index is incremented first)
write_store_preincrement(p) ==
    /\ pc[p] = "w_store"
    /\ heap' \in Store(heap, buf, idx[p] + 1, val[p])
    /\ top' = idx[p] + 1
    /\ Goto(p, "w_unlock")
    /\ run' = Disturbed(p, "pushed")
    /\ UNCHANGED <<buf, max, lock, call, locals, ret, printed, user, hist>>

\* ... and the two stores, of the entry and of the incremented s->top
write_store(p) ==
    /\ pc[p] = "w_store"
    /\ heap' \in Store(heap, buf, idx[p], val[p])
    /\ top' = idx[p] + 1
    /\ Goto(p, "w_unlock")
    /\ run' = Disturbed(p, "pushed")
    /\ UNCHANGED <<buf, max, lock, call, locals, ret, printed, user, hist>>

write_unlock(p) ==
    /\ pc[p] = "w_unlock"
    /\ mutex_unlock(p)
    /\ pre' = Snapshot
    /\ Return(p, SIZEOF_INT)
    /\ seq_stack' = SeqPush(seq_stack, val[p]).st
    /\ Answer(p, SeqPush(seq_stack, val[p]).ret, ubuf[p])
    /\ unpopped' = Append(unpopped, val[p])
    /\ UNCHANGED <<buf, top, max, heap, call, locals, printed, user, run>>

(* ----------------------------- stack_read ------------------------------ *)
\* (variant: the pop goes ahead without taking the guard)
read_lock_skipped(p) ==
    /\ pc[p] = "r_lock"
    /\ Goto(p, "r_check")
    /\ UNCHANGED <<kern, call, locals, ret, printed, user, hist, run>>

read_lock(p) ==
    /\ pc[p] = "r_lock"
    /\ mutex_lock(p)
    /\ Goto(p, "r_check")
    /\ pre' = Snapshot
    /\ UNCHANGED <<buf, top, max, heap, call, locals, ret, printed, user,
                   seq_stack, expect, unpopped, run>>

\* (variant: the emptiness test is missing)
read_check_always_pops(p) ==
    /\ pc[p] = "r_check"
    /\ Goto(p, "r_top")
    /\ UNCHANGED <<kern, call, locals, ret, printed, user, hist, run>>

read_check(p) ==
    /\ pc[p] = "r_check"
    /\ Goto(p, IF top = 0 THEN "r_empty" ELSE "r_top")
    /\ UNCHANGED <<kern, call, locals, ret, printed, user, hist, run>>

\* (variant: the Empty exit returns without releasing the guard)
read_empty_keeps_guard(p) ==
    /\ pc[p] = "r_empty"
    /\ Return(p, 0)
    /\ seq_stack' = SeqPop(seq_stack, call[p].ok, ubuf[p]).st
    /\ Answer(p, SeqPop(seq_stack, call[p].ok, ubuf[p]).ret,
                 SeqPop(seq_stack, call[p].ok, ubuf[p]).out)
    /\ UNCHANGED <<kern, call, locals, printed, user, pre, unpopped, run>>

read_empty(p) ==
    /\ pc[p] = "r_empty"
    /\ mutex_unlock(p)
    /\ pre' = Snapshot
    /\ Return(p, 0)
    /\ seq_stack' = SeqPop(seq_stack, call[p].ok, ubuf[p]).st
    /\ Answer(p, SeqPop(seq_stack, call[p].ok, ubuf[p]).ret,
                 SeqPop(seq_stack, call[p].ok, ubuf[p]).out)
    /\ UNCHANGED <<buf, top, max, heap, call, locals, printed, user, unpopped, run>>

\* s->top--: the load of s->top and the store of the decremented value
\* (size_t; the check above keeps the decrement away from 0)
read_top(p) ==
    /\ pc[p] = "r_top"
    /\ idx' = [idx EXCEPT ![p] = top]
    /\ Goto(p, "r_dec")
    /\ UNCHANGED <<kern, call, val, new_max, new_buf, ret, printed, user, hist, run>>

read_dec(p) ==
    /\ pc[p] = "r_dec"
    /\ top' = idx[p] - 1
    /\ Goto(p, "r_load")
    /\ run' = IF top' < top THEN Disturbed(p, "taken") ELSE run
    /\ UNCHANGED <<buf, max, lock, heap, call, locals, ret, printed, user, hist>>

\* (variant: the entry is read at the index s->top had before the decrement)
read_load_before_dec(p) ==
    /\ pc[p] = "r_load"
    /\ \E v \in Load(heap, buf, idx[p]) : val' = [val EXCEPT ![p] = v]
    /\ Goto(p, "r_unlock")
    /\ UNCHANGED <<kern, call, new_max, new_buf, idx, ret, printed, user, hist, run>>

read_load(p) ==
    /\ pc[p] = "r_load"
    /\ \E v \in Load(heap, buf, top) : val' = [val EXCEPT ![p] = v]
    /\ Goto(p, "r_unlock")
    /\ UNCHANGED <<kern, call, new_max, new_buf, idx, ret, printed, user, hist, run>>

read_unlock(p) ==
    /\ pc[p] = "r_unlock"
    /\ mutex_unlock(p)
    /\ pre' = Snapshot
    /\ Goto(p, "r_copy")
    /\ seq_stack' = SeqPop(seq_stack, call[p].ok, ubuf[p]).st
    /\ Answer(p, SeqPop(seq_stack, call[p].ok, ubuf[p]).ret,
                 SeqPop(seq_stack, call[p].ok, ubuf[p]).out)
    /\ unpopped' = SubSeq(unpopped, 1, Len(unpopped) - 1)
    /\ UNCHANGED <<buf, top, max, heap, call, locals, ret, printed, user, run>>

\* copy_to_user and the return, after the guard is released
read_copy(p) ==
    /\ pc[p] = "r_copy"
    /\ IF call[p].ok
       THEN Return(p, SIZEOF_INT) /\ ubuf' = [ubuf EXCEPT ![p] = val[p]]
       ELSE Return(p, 0 - EFAULT) /\ UNCHANGED ubuf
    /\ UNCHANGED <<kern, call, locals, printed, cli, out, calls, hist, run>>

(* ----------------------------- stack_ioctl ----------------------------- *)
\* (variant: the resize goes ahead without taking the guard)
ioctl_lock_skipped(p) ==
    /\ pc[p] = "i_lock"
    /\ Goto(p, "i_alloc")
    /\ UNCHANGED <<kern, call, locals, ret, printed, user, hist, run>>

ioctl_lock(p) ==
    /\ pc[p] = "i_lock"
    /\ mutex_lock(p)
    /\ Goto(p, "i_alloc")
    /\ pre' = Snapshot
    /\ UNCHANGED <<buf, top, max, heap, call, locals, ret, printed, user,
                   seq_stack, expect, unpopped, run>>

\* (variant: the count is clamped before the allocation's result is looked at)
ioctl_alloc_clamp_first(p) ==
    /\ pc[p] = "i_alloc"
    /\ top' = IF top > new_max[p] THEN new_max[p] ELSE top
    /\ \E b \in Kmalloc(heap) \cup {NullBuf} :
          /\ new_buf' = [new_buf EXCEPT ![p] = b]
          /\ heap' = IF b = NullBuf THEN heap ELSE Allocated(heap, b, new_max[p])
          /\ Goto(p, IF b = NullBuf THEN "i_nomem" ELSE "i_clamp")
    /\ run' = IF top' < top THEN Disturbed(p, "taken") ELSE run
    /\ UNCHANGED <<buf, max, lock, call, val, new_max, idx, ret, printed, user, hist>>

\* kmalloc_array returns a free block, or NULL (which it may do at any time)
ioctl_alloc(p) ==
    /\ pc[p] = "i_alloc"
    /\ \E b \in Kmalloc(heap) \cup {NullBuf} :
          /\ new_buf' = [new_buf EXCEPT ![p] = b]
          /\ heap' = IF b = NullBuf THEN heap ELSE Allocated(heap, b, new_max[p])
          /\ Goto(p, IF b = NullBuf THEN "i_nomem" ELSE "i_clamp")
    /\ UNCHANGED <<buf, top, max, lock, call, val, new_max, idx, ret, printed, user,
                   hist, run>>

ioctl_nomem(p) ==
    /\ pc[p] = "i_nomem"
    /\ mutex_unlock(p)
    /\ pre' = Snapshot
    /\ Return(p, 0 - ENOMEM)
    /\ seq_stack' = SeqResize(seq_stack, new_max[p], FALSE).st
    /\ Answer(p, SeqResize(seq_stack, new_max[p], FALSE).ret, ubuf[p])
    /\ UNCHANGED <<buf, top, max, heap, call, locals, printed, user, unpopped, run>>

\* (variant: a shrinking resize keeps the old count)
ioctl_clamp_skipped(p) ==
    /\ pc[p] = "i_clamp"
    /\ Goto(p, "i_copy")
    /\ UNCHANGED <<kern, call, locals, ret, printed, user, hist, run>>

\* (variant: a shrinking resize below the count empties the stack)
ioctl_clamp_empties(p) ==
    /\ pc[p] = "i_clamp"
    /\ top' = IF top > new_max[p] THEN 0 ELSE top
    /\ Goto(p, "i_copy")
    /\ run' = IF top' < top THEN Disturbed(p, "taken") ELSE run
    /\ UNCHANGED <<buf, max, lock, heap, call, locals, ret, printed, user, hist>>

\* if we're shrinking, drop extra values
ioctl_clamp(p) ==
    /\ pc[p] = "i_clamp"
    /\ top' = IF top > new_max[p] THEN new_max[p] ELSE top
    /\ Goto(p, "i_copy")
    /\ run' = IF top' < top THEN Disturbed(p, "taken") ELSE run
    /\ UNCHANGED <<buf, max, lock, heap, call, locals, ret, printed, user, hist>>

\* (variant: the copy stops one entry short)
ioctl_copy_short(p) ==
    /\ pc[p] = "i_copy"
    /\ heap' = Memcpy(heap, new_buf[p], buf, top - 1)
    /\ Goto(p, "i_free")
    /\ UNCHANGED <<buf, top, max, lock, call, locals, ret, printed, user, hist, run>>

ioctl_copy(p) ==
    /\ pc[p] = "i_copy"
    /\ heap' = Memcpy(heap, new_buf[p], buf, top)
    /\ Goto(p, "i_free")
    /\ UNCHANGED <<buf, top, max, lock, call, locals, ret, printed, user, hist, run>>

ioctl_free(p) ==
    /\ pc[p] = "i_free"
    /\ heap' = Kfree(heap, buf)
    /\ Goto(p, "i_swap")
    /\ UNCHANGED <<buf, top, max, lock, call, locals, ret, printed, user, hist, run>>

ioctl_swap(p) ==
    /\ pc[p] = "i_swap"
    /\ buf' = new_buf[p]
    /\ Goto(p, "i_setmax")
    /\ UNCHANGED <<top, max, lock, heap, call, locals, ret, printed, user, hist, run>>

ioctl_setmax(p) ==
    /\ pc[p] = "i_setmax"
    /\ max' = new_max[p]
    /\ Goto(p, "i_unlock")
    /\ UNCHANGED <<buf, top, lock, heap, call, locals, ret, printed, user, hist, run>>

ioctl_unlock(p) ==
    /\ pc[p] = "i_unlock"
    /\ mutex_unlock(p)
    /\ pre' = Snapshot
    /\ Goto(p, "i_log")
    /\ seq_stack' = SeqResize(seq_stack, new_max[p], TRUE).st
    /\ Answer(p, SeqResize(seq_stack, new_max[p], TRUE).ret, ubuf[p])
    /\ UNCHANGED <<buf, top, max, heap, call, locals, ret, printed, user, unpopped, run>>

\* pr_info("resized to %zu", s->max) and the return, after the guard is released
ioctl_log(p) ==
    /\ pc[p] = "i_log"
    /\ printed' = [printed EXCEPT ![p] = max]
    /\ Return(p, 0)
    /\ UNCHANGED <<kern, call, locals, user, hist, run>>

(* ------------------- kernel_stack.c: number parsing -------------------- *)
\* A C string is the sequence of its characters; index Len(s) + 1 is its '\0'.
\* A long is a sign and a magnitude of four 16-bit limbs, lowest first.
Limb == 65536
Digits == <<"0", "1", "2", "3", "4", "5", "6", "7", "8", "9">>
IsDigit(c) == \E d \in 1..10 : Digits[d] = c
DigitOf(c) == (CHOOSE d \in 1..10 : Digits[d] = c) - 1
IsSpace(c) == c = " "

ZeroMag == <<0, 0, 0, 0>>
LongMaxMag == <<65535, 65535, 65535, 32767>>
LongMinMag == <<0, 0, 0, 32768>>

\* m * 10 + d on 64 bits, with the carry out of the top limb
MulAdd(m, d) ==
    LET t0 == m[1] * 10 + d
        t1 == m[2] * 10 + (t0 \div Limb)
        t2 == m[3] * 10 + (t1 \div Limb)
        t3 == m[4] * 10 + (t2 \div Limb)
    IN [mag |-> <<t0 % Limb, t1 % Limb, t2 % Limb, t3 % Limb>>,
        over |-> t3 \div Limb > 0]

RECURSIVE SkipSpace(_, _)
SkipSpace(s, i) == IF i <= Len(s) /\ IsSpace(s[i]) THEN SkipSpace(s, i + 1) ELSE i

RECURSIVE Accum(_, _, _, _)
Accum(s, i, m, over) ==
    IF i > Len(s) \/ ~IsDigit(s[i])
    THEN [mag |-> m, over |-> over, end |-> i]
    ELSE LET r == MulAdd(m, DigitOf(s[i]))
         IN Accum(s, i + 1, r.mag, over \/ r.over)

\* strtol(s, &end, 10): blanks, an optional sign, digits; saturates at
\* LONG_MAX / LONG_MIN; with no digits the value is 0 and end is s itself
strtol(s) ==
    LET i0 == SkipSpace(s, 1)
        neg == i0 <= Len(s) /\ s[i0] = "-"
        i1 == IF i0 <= Len(s) /\ s[i0] \in {"-", "+"} THEN i0 + 1 ELSE i0
        a == Accum(s, i1, ZeroMag, FALSE)
    IN IF i1 > Len(s) \/ ~IsDigit(s[i1])
       THEN [neg |-> FALSE, mag |-> ZeroMag, end |-> 1]
       ELSE IF ~neg /\ (a.over \/ a.mag[4] >= 32768)
       THEN [neg |-> FALSE, mag |-> LongMaxMag, end |-> a.end]
       ELSE IF neg /\ (a.over \/ a.mag[4] > 32768
                       \/ (a.mag[4] = 32768 /\ a.mag # LongMinMag))
       THEN [neg |-> TRUE, mag |-> LongMinMag, end |-> a.end]
       ELSE [neg |-> neg /\ a.mag # ZeroMag, mag |-> a.mag, end |-> a.end]

\* *end != '\0'
Trailing(s, r) == r.end <= Len(s)

\* n <= 0
NonPositive(r) == r.neg \/ r.mag = ZeroMag

\* (int) n: the low 32 bits, read as two's complement
ToInt(r) ==
    LET lo == IF r.mag[2] >= 32768 THEN (r.mag[2] - Limb) * Limb + r.mag[1]
              ELSE r.mag[2] * Limb + r.mag[1]
    IN IF r.neg /\ ~(r.mag[2] = 32768 /\ r.mag[1] = 0) THEN 0 - lo ELSE lo

\* (unsigned int) n for n > 0: the low 32 bits (below 2^31 for every
\* argument of SizeArgs)
ToUInt(r) == r.mag[2] * Limb + r.mag[1]

\* the argument strings tried for set-size and for push
SizeArgs == {<<"0">>, <<"1">>, <<" ", "2">>, <<"-", "1">>, <<"2", "x">>, <<>>,
             <<"4", "2", "9", "4", "9", "6", "7", "2", "9", "6">>,
             <<"4", "2", "9", "4", "9", "6", "7", "2", "9", "7">>}
PushArgs == {<<"2">>, <<"-", "1">>, <<"x">>, <<>>}

ArgLists(S) == {<<>>} \cup {<<a>> : a \in S}

(* ------------------------ kernel_stack.c: main ------------------------- *)
NoCmd == [cmd |-> "none", args |-> <<>>, status |-> 0]

\* a caller that is idle may start something new while fewer than `limit`
\* calls have been started
Ready(p, limit) == pc[p] = "idle" /\ calls < limit

Begin(p, cmd, args, status) ==
    /\ cli' = [cli EXCEPT ![p] = [cmd |-> cmd, args |-> args, status |-> status]]
    /\ calls' = calls + 1

\* the command ends without entering the driver
Exit(p) == Goto(p, "exit") /\ UNCHANGED <<call, locals, ret>>

\* open(DEV_PATH, O_RDWR) succeeds, or fails with some errno
Opens == {0, ENOENT}

\* kernel_stack set-size N, up to and including the ioctl's entry
cli_set_size(p, limit) ==
    /\ Ready(p, limit)
    /\ \E args \in ArgLists(SizeArgs), e \in Opens :
          IF Len(args) # 1
          THEN e = 0 /\ Begin(p, "set-size", args, EINVAL) /\ Exit(p)
          ELSE LET n == strtol(args[1]) IN
               IF Trailing(args[1], n) \/ NonPositive(n)
               THEN e = 0 /\ Begin(p, "set-size", args, EINVAL) /\ Exit(p)
               ELSE IF e # 0
               THEN Begin(p, "set-size", args, e) /\ Exit(p)
               ELSE Begin(p, "set-size", args, 0)
                    /\ stack_ioctl_entry(p, SET_SIZE, TRUE, ToUInt(n))
    /\ UNCHANGED <<kern, printed, ubuf, out, hist, run>>

\* kernel_stack push VAL, up to and including the write's entry
cli_push(p, limit) ==
    /\ Ready(p, limit)
    /\ \E args \in ArgLists(PushArgs), e \in Opens :
          IF Len(args) # 1
          THEN e = 0 /\ Begin(p, "push", args, EINVAL) /\ Exit(p)
          ELSE LET v == strtol(args[1]) IN
               IF Trailing(args[1], v)
               THEN e = 0 /\ Begin(p, "push", args, EINVAL) /\ Exit(p)
               ELSE IF e # 0
               THEN Begin(p, "push", args, e) /\ Exit(p)
               ELSE Begin(p, "push", args, 0)
                    /\ stack_write_entry(p, SIZEOF_INT, TRUE, ToInt(v))
    /\ UNCHANGED <<kern, printed, ubuf, out, hist, run>>

\* kernel_stack pop / kernel_stack unwind, up to and including the first
\* read's entry; any other command word, or none, prints the usage
cli_pop(p, limit) ==
    /\ Ready(p, limit)
    /\ \E cmd \in {"pop", "unwind"}, args \in {<<>>, <<<<"1">>>>}, e \in Opens :
          IF Len(args) # 0
          THEN e = 0 /\ Begin(p, cmd, args, EINVAL) /\ Exit(p)
          ELSE IF e # 0
          THEN Begin(p, cmd, args, e) /\ Exit(p)
          ELSE Begin(p, cmd, args, 0) /\ stack_read_entry(p, SIZEOF_INT, TRUE)
    /\ run' = [run EXCEPT ![p] = Started]
    /\ UNCHANGED <<kern, printed, ubuf, out, hist>>

cli_usage(p, limit) ==
    /\ Ready(p, limit)
    /\ Begin(p, "usage", <<>>, EINVAL)
    /\ Exit(p)
    /\ UNCHANGED <<kern, printed, ubuf, out, hist, run>>

\* after ioctl / write returned: report a failure, return errno or 0
cli_status(p) ==
    /\ pc[p] = "ret"
    /\ cli[p].cmd \in {"set-size", "push"}
    /\ cli' = [cli EXCEPT ![p].status = IF ret[p] < 0 THEN 0 - ret[p] ELSE 0]
    /\ Goto(p, "exit")
    /\ UNCHANGED <<kern, call, locals, ret, printed, ubuf, out, calls, hist, run>>

\* after pop's read returned: print the value, or NULL
cli_pop_print(p) ==
    /\ pc[p] = "ret"
    /\ cli[p].cmd = "pop"
    /\ cli' = [cli EXCEPT ![p].status = IF ret[p] < 0 THEN 0 - ret[p] ELSE 0]
    /\ out' = [out EXCEPT ![p] = IF ret[p] < 0 THEN @
                                 ELSE IF ret[p] = 0 THEN Append(@, "NULL")
                                 ELSE Append(@, ToString(ubuf[p]))]
    /\ Goto(p, "exit")
    /\ UNCHANGED <<kern, call, locals, ret, printed, ubuf, calls, hist, run>>

\* (variant: unwind leaves its loop after the first value, as pop does)
cli_unwind_stops_early(p) ==
    /\ pc[p] = "ret"
    /\ cli[p].cmd = "unwind"
    /\ cli' = [cli EXCEPT ![p].status = IF ret[p] < 0 THEN 0 - ret[p] ELSE 0]
    /\ out' = [out EXCEPT ![p] = IF ret[p] <= 0 THEN @
                                 ELSE Append(@, ToString(ubuf[p]))]
    /\ Exit(p)
    /\ UNCHANGED <<kern, printed, ubuf, calls, hist, run>>

\* one turn of unwind's loop: stop on an error or on 0, else print and read again
cli_unwind_next(p) ==
    /\ pc[p] = "ret"
    /\ cli[p].cmd = "unwind"
    /\ IF ret[p] <= 0
       THEN /\ cli' = [cli EXCEPT ![p].status = 0 - ret[p]]
            /\ Exit(p)
            /\ UNCHANGED out
       ELSE /\ out' = [out EXCEPT ![p] = Append(@, ToString(ubuf[p]))]
            /\ stack_read_entry(p, SIZEOF_INT, TRUE)
            /\ UNCHANGED cli
    /\ UNCHANGED <<kern, printed, ubuf, calls, hist, run>>

(* ------------------- callers that use the device directly --------------- *)
Cnts == {SIZEOF_INT - 1, SIZEOF_INT}

\* an argument the driver never looks at is left out of the choice
sys_read(p, limit) ==
    /\ Ready(p, limit)
    /\ Begin(p, "raw", <<>>, 0)
    /\ \E cnt \in Cnts, ok \in BOOLEAN :
          /\ cnt < SIZEOF_INT => ok
          /\ stack_read_entry(p, cnt, ok)
    /\ UNCHANGED <<kern, printed, ubuf, out, hist, run>>

sys_write(p, limit) ==
    /\ Ready(p, limit)
    /\ Begin(p, "raw", <<>>, 0)
    /\ \E cnt \in Cnts, ok \in BOOLEAN, v \in Values :
          /\ cnt < SIZEOF_INT => ok
          /\ (cnt < SIZEOF_INT \/ ~ok) => v = 1
          /\ stack_write_entry(p, cnt, ok, v)
    /\ UNCHANGED <<kern, printed, ubuf, out, hist, run>>

sys_ioctl(p, limit) ==
    /\ Ready(p, limit)
    /\ Begin(p, "raw", <<>>, 0)
    /\ \E cmd \in Cmds, ok \in BOOLEAN, n \in 0..MaxSize :
          /\ cmd # IOC_SET_SIZE => ok
          /\ (cmd # IOC_SET_SIZE \/ ~ok) => n = 0
          /\ stack_ioctl_entry(p, cmd, ok, n)
    /\ UNCHANGED <<kern, printed, ubuf, out, hist, run>>

\* the call has returned / the command has exited: the caller is free again
user_done(p) ==
    /\ pc[p] = "exit" \/ (pc[p] = "ret" /\ cli[p].cmd = "raw")
    /\ Goto(p, "idle")
    /\ call' = [call EXCEPT ![p] = NoCall]
    /\ val' = [val EXCEPT ![p] = 0]
    /\ new_max' = [new_max EXCEPT ![p] = 0]
    /\ new_buf' = [new_buf EXCEPT ![p] = NullBuf]
    /\ idx' = [idx EXCEPT ![p] = 0]
    /\ ret' = [ret EXCEPT ![p] = 0]
    /\ printed' = [printed EXCEPT ![p] = 0]
    /\ ubuf' = [ubuf EXCEPT ![p] = 0]
    /\ cli' = [cli EXCEPT ![p] = NoCmd]
    /\ out' = [out EXCEPT ![p] = <<>>]
    /\ expect' = [expect EXCEPT ![p] = [ret |-> 0, out |-> 0]]
    /\ run' = [run EXCEPT ![p] = NoRun]
    /\ UNCHANGED <<kern, calls, pre, seq_stack, unpopped>>

(* ------------------------------- init --------------------------------- *)
\* the state stack_init leaves when it returns 0
Init ==
    /\ buf = 1
    /\ top = 0
    /\ max = DEFAULT_SIZE
    /\ lock = NoOwner
    /\ heap = [b \in BufIds |->
                 IF b = 1 THEN [live |-> TRUE, size |-> DEFAULT_SIZE, cells |-> NoCells]
                 ELSE FreeBlock]
    /\ pc = [p \in Callers |-> "idle"]
    /\ call = [p \in Callers |-> NoCall]
    /\ val = [p \in Callers |-> 0]
    /\ new_max = [p \in Callers |-> 0]
    /\ new_buf = [p \in Callers |-> NullBuf]
    /\ idx = [p \in Callers |-> 0]
    /\ ret = [p \in Callers |-> 0]
    /\ printed = [p \in Callers |-> 0]
    /\ ubuf = [p \in Callers |-> 0]
    /\ cli = [p \in Callers |-> NoCmd]
    /\ out = [p \in Callers |-> <<>>]
    /\ calls = 0
    /\ pre = [buf |-> 1, top |-> 0, max |-> DEFAULT_SIZE, items |-> <<>>]
    /\ seq_stack = [items |-> <<>>, cap |-> DEFAULT_SIZE]
    /\ expect = [p \in Callers |-> [ret |-> 0, out |-> 0]]
    /\ unpopped = <<>>
    /\ run = [p \in Callers |-> NoRun]

\* the steps of the three file operations
Driver(p) ==
    \/ read_lock(p) \/ read_check(p) \/ read_empty(p) \/ read_top(p)
    \/ read_dec(p) \/ read_load(p) \/ read_unlock(p) \/ read_copy(p)
    \/ write_lock(p) \/ write_check(p) \/ write_full(p) \/ write_top(p)
    \/ write_store(p) \/ write_unlock(p)
    \/ ioctl_lock(p) \/ ioctl_alloc(p) \/ ioctl_nomem(p) \/ ioctl_clamp(p)
    \/ ioctl_copy(p) \/ ioctl_free(p) \/ ioctl_swap(p) \/ ioctl_setmax(p)
    \/ ioctl_unlock(p) \/ ioctl_log(p)

\* callers that read, write and ioctl the device directly
Next ==
    \E p \in Callers :
        \/ sys_read(p, MaxCalls) \/ sys_write(p, MaxCalls) \/ sys_ioctl(p, MaxCalls)
        \/ user_done(p)
        \/ Driver(p)

Spec == Init /\ [][Next]_vars

\* callers that run kernel_stack commands, or ioctl the device themselves
NextCli ==
    \E p \in Callers :
        \/ cli_set_size(p, MaxCalls) \/ cli_push(p, MaxCalls)
        \/ cli_pop(p, MaxCalls) \/ cli_usage(p, MaxCalls)
        \/ sys_ioctl(p, MaxCalls)
        \/ cli_status(p) \/ cli_pop_print(p) \/ cli_unwind_next(p)
        \/ user_done(p)
        \/ Driver(p)

SpecCli == Init /\ [][NextCli]_vars

\* one caller alone, issuing up to MaxSeqCalls calls one after the other
NextSeq ==
    \/ sys_read(1, MaxSeqCalls) \/ sys_write(1, MaxSeqCalls)
    \/ sys_ioctl(1, MaxSeqCalls)
    \/ user_done(1)
    \/ Driver(1)

SpecSeq == Init /\ [][NextSeq]_vars

(* NumCallers pushers, each pushing PushesEach values of its own through   *)
(* write(); once all of them are done, caller 1 runs `unwind`.              *)
PushesEach == 2

Mine(p) == ((p - 1) * PushesEach + 1)..(p * PushesEach)
Pushed(p) == {v \in Mine(p) : \E i \in 1..Len(unpopped) : unpopped[i] = v}

c5_push(p) ==
    /\ Ready(p, NumCallers * PushesEach)
    /\ Cardinality(Pushed(p)) < PushesEach
    /\ Begin(p, "raw", <<>>, 0)
    /\ stack_write_entry(p, SIZEOF_INT, TRUE,
                         (p - 1) * PushesEach + Cardinality(Pushed(p)) + 1)
    /\ UNCHANGED <<kern, printed, ubuf, out, hist, run>>

c5_unwind ==
    /\ \A p \in Callers : pc[p] = "idle"
    /\ calls = NumCallers * PushesEach
    /\ Begin(1, "unwind", <<>>, 0)
    /\ stack_read_entry(1, SIZEOF_INT, TRUE)
    /\ run' = [run EXCEPT ![1] = Started]
    /\ UNCHANGED <<kern, printed, ubuf, out, hist>>

NextC5 ==
    \/ c5_unwind
    \/ \E p \in Callers :
          \/ c5_push(p)
          \/ write_lock(p) \/ write_check(p) \/ write_top(p) \/ write_store(p)
          \/ write_unlock(p)
          \/ read_lock(p) \/ read_check(p) \/ read_empty(p) \/ read_top(p)
          \/ read_dec(p) \/ read_load(p) \/ read_unlock(p) \/ read_copy(p)
          \/ cli_unwind_next(p)
          \/ user_done(p)

SpecC5 == Init /\ [][NextC5]_vars

(* ======================== properties of the model ======================= *)
PushSection == {"w_check", "w_full", "w_top", "w_store", "w_unlock"}
PopSection == {"r_check", "r_empty", "r_top", "r_dec", "r_load", "r_unlock"}
ResizeSection == {"i_alloc", "i_nomem", "i_clamp", "i_copy", "i_free", "i_swap",
                  "i_setmax", "i_unlock"}
Sections == PushSection \cup PopSection \cup ResizeSection
Waiting == {"r_lock", "w_lock", "i_lock"}

\* C1: in every reachable state 0 <= count <= capacity and capacity >= 1,
\* whatever the callers have pushed, popped and resized so far.
C1_CountWithinCapacity == 0 <= top /\ top <= max /\ max >= 1

\* a resize has made the stack small, pushes have filled it to the brim and
\* one more push is being turned away
C1_Witness ==
    \E p \in Callers : pc[p] = "w_full" /\ top = max /\ max < DEFAULT_SIZE

\* C2: no two callers are inside the guarded sections of push, pop or resize
\* at the same time, and whoever is inside one holds the guard.
C2_MutualExclusion ==
    \A p, q \in Callers :
        /\ pc[p] \in Sections => lock = p
        /\ (p # q /\ pc[p] \in Sections) => pc[q] \notin Sections

\* a resize is inside its section while a push waits for the guard
C2_Witness ==
    \E p, q \in Callers : pc[p] \in ResizeSection /\ pc[q] = "w_lock"

\* the call of p got as far as the guard
Guarded(p) ==
    \/ call[p].op = "read" /\ call[p].cnt >= SIZEOF_INT
    \/ call[p].op = "write" /\ call[p].cnt >= SIZEOF_INT /\ call[p].ok
    \/ call[p].op = "ioctl" /\ call[p].cmd = IOC_SET_SIZE /\ call[p].ok
                            /\ call[p].uval # 0

\* C3: whenever the guard is free the device's (count, capacity, contents)
\* are those of the sequential reference stack that applied the same
\* operations one at a time in the order they held the guard, and every call
\* that went through the guard returns what the reference stack answered.
C3_Linearizable ==
    /\ lock = NoOwner => Abs = seq_stack
    /\ \A p \in Callers :
          (pc[p] = "ret" /\ Guarded(p)) =>
              ret[p] = expect[p].ret /\ ubuf[p] = expect[p].out

\* a pop that ran concurrently with a push has returned the pushed value
C3_Witness ==
    \E p, q \in Callers :
        /\ p # q
        /\ pc[q] \in {"w_unlock", "ret"} /\ call[q].op = "write"
        /\ pc[p] = "ret" /\ call[p].op = "read" /\ ret[p] = SIZEOF_INT
        /\ ubuf[p] = call[q].uval

\* C4: while a push or a pop is inside its section no resize is inside its
\* own, and until the push or pop changes the stack itself the buffer is
\* allocated, has room for exactly `max` entries and (buf, top, max, contents)
\* are what the last holder of the guard left: all of a resize or none of it.
C4_ResizeAtomic ==
    \A p \in Callers :
        /\ pc[p] \in PushSection \cup PopSection =>
              /\ \A q \in Callers : pc[q] \notin ResizeSection
              /\ buf \in BufIds /\ heap[buf].live /\ heap[buf].size = max
        /\ pc[p] \in {"w_check", "w_full", "w_top", "w_store",
                      "r_check", "r_empty", "r_top", "r_dec"} =>
              Snapshot = pre /\ Abs = seq_stack

\* a resize has swapped the buffer but not yet the capacity while a push or a
\* pop waits for the guard
C4_Witness ==
    \E p, q \in Callers :
        /\ pc[q] = "i_setmax" /\ heap[buf].size # max
        /\ pc[p] \in {"w_lock", "r_lock"}

\* C5: when NumCallers pushers each push PushesEach values of their own,
\* every push succeeds, and the pops that follow (unwind) print each pushed
\* value exactly once before the first empty read.
C5_NoLostUpdate ==
    /\ \A p \in Callers :
          /\ pc[p] # "w_full"
          /\ (pc[p] = "ret" /\ call[p].op = "write") => ret[p] = SIZEOF_INT
    /\ (pc[1] = "exit" /\ cli[1].cmd = "unwind") =>
          /\ cli[1].status = 0
          /\ Len(out[1]) = NumCallers * PushesEach
          /\ {out[1][i] : i \in 1..Len(out[1])} =
                {ToString(v) : v \in 1..(NumCallers * PushesEach)}

\* unwind has printed everything, and the first pusher's last value came
\* out first: the other pushers finished before it did
C5_Witness ==
    /\ pc[1] = "exit" /\ cli[1].cmd = "unwind"
    /\ Len(out[1]) = NumCallers * PushesEach
    /\ out[1][1] = ToString(PushesEach)

\* C6 as stated: the value a pop takes from a non-empty stack is the most
\* recently pushed value that no pop has taken yet.
C6_Original ==
    \A p \in Callers :
        pc[p] = "r_unlock" =>
            Len(unpopped) > 0 /\ val[p] = unpopped[Len(unpopped)]

\* C6 (amended): the value a pop takes from a non-empty stack is the most
\* recently pushed value that has been neither popped nor dropped by a
\* shrinking resize, and a read that returns an int returns that value.
C6_LifoAmongSurvivors ==
    \A p \in Callers :
        /\ pc[p] = "r_unlock" =>
              /\ Len(seq_stack.items) > 0
              /\ val[p] = seq_stack.items[Len(seq_stack.items)]
        /\ (pc[p] = "ret" /\ call[p].op = "read" /\ ret[p] = SIZEOF_INT) =>
              ubuf[p] = expect[p].out

\* a pop takes a value that is not the newest unpopped one: a shrinking
\* resize dropped the newer ones
C6_Witness ==
    \E p \in Callers :
        /\ pc[p] = "r_unlock"
        /\ Len(unpopped) > Len(seq_stack.items)
        /\ val[p] # unpopped[Len(unpopped)]

\* C7: when a resize to n has done all its assignments, capacity = n,
\* count = min(old count, n), the entries below the new count are the old
\* ones in the old order, and the buffer in use has room for n entries.
C7_ResizeResult ==
    \A p \in Callers :
        pc[p] = "i_unlock" =>
            /\ max = new_max[p]
            /\ top = Min(pre.top, new_max[p])
            /\ Contents = SubSeq(pre.items, 1, Min(pre.top, new_max[p]))
            /\ buf \in BufIds /\ heap[buf].live /\ heap[buf].size = new_max[p]

\* a resize below the occupancy has finished: entries were dropped
C7_Witness ==
    \E p \in Callers :
        pc[p] = "i_unlock" /\ pre.top > new_max[p] /\ top = new_max[p] /\ top > 0

\* C8: a resize whose allocation failed has changed nothing (buffer, count,
\* capacity, entries), also when the requested capacity is below the count;
\* it then returns -ENOMEM with the guard released and the stack untouched.
C8_AllocFailure ==
    /\ [](\A p \in Callers :
            pc[p] = "i_nomem" =>
                /\ Snapshot = pre
                /\ buf \in BufIds /\ heap[buf].live /\ heap[buf].size = max)
    /\ [][\A p \in Callers :
            (pc[p] = "i_nomem" /\ pc'[p] # "i_nomem") =>
                /\ pc'[p] = "ret" /\ ret'[p] = 0 - ENOMEM
                /\ lock' = NoOwner
                /\ UNCHANGED <<buf, top, max, heap>>]_vars

\* a resize to less than the occupancy has failed for lack of memory
C8_Witness ==
    \E p \in Callers :
        /\ pc[p] = "ret" /\ call[p].op = "ioctl" /\ ret[p] = 0 - ENOMEM
        /\ call[p].uval < top
        /\ lock = NoOwner

\* a decimal integer: blanks, an optional sign, one or more digits
WellFormed(s) ==
    \E b \in 0..Len(s), g \in {0, 1} :
        /\ \A i \in 1..b : s[i] = " "
        /\ g = 1 => (b + 1 <= Len(s) /\ s[b + 1] \in {"+", "-"})
        /\ b + g < Len(s)
        /\ \A i \in (b + g + 1)..Len(s) : IsDigit(s[i])

\* the text asks for capacity 0, for a negative one, or is no integer
BadSize(s) ==
    \/ ~WellFormed(s)
    \/ \E i \in 1..Len(s) : s[i] = "-"
    \/ \A i \in 1..Len(s) : IsDigit(s[i]) => s[i] = "0"

\* p is in a set-size command with such a text, or in an ioctl for size 0
BadResize(p) ==
    \/ cli[p].cmd = "set-size" /\ Len(cli[p].args) = 1 /\ BadSize(cli[p].args[1])
    \/ call[p].op = "ioctl" /\ call[p].cmd = IOC_SET_SIZE /\ call[p].ok
                            /\ call[p].uval = 0

\* C9: a resize asked with capacity 0, a negative or an unparseable one
\* fails with EINVAL (the command's exit status, the ioctl's -EINVAL), and
\* no step of that call changes count, capacity or contents.
C9_InvalidResize ==
    /\ [](\A p \in Callers :
            /\ (cli[p].cmd = "set-size" /\ Len(cli[p].args) = 1
                /\ BadSize(cli[p].args[1])) =>
                   pc[p] = "exit" /\ cli[p].status = EINVAL /\ call[p] = NoCall
            /\ (call[p].op = "ioctl" /\ call[p].cmd = IOC_SET_SIZE /\ call[p].ok
                /\ call[p].uval = 0) =>
                   pc[p] \in {"ret", "exit"} /\ ret[p] = 0 - EINVAL)
    /\ [][\A p \in Callers :
            (pc'[p] # pc[p] /\ (BadResize(p) \/ BadResize(p)')) =>
                UNCHANGED <<buf, top, max, heap>>]_vars

\* set-size -1 has been turned away while the stack holds entries
C9_Witness ==
    \E p \in Callers :
        /\ cli[p].cmd = "set-size" /\ cli[p].args = <<<<"-", "1">>>>
        /\ pc[p] = "exit" /\ cli[p].status = EINVAL
        /\ top > 0

\* C10: a push goes to the Full exit exactly when it finds count = capacity;
\* it then returns -ERANGE (the command: exit status ERANGE) having changed
\* neither count, capacity nor any entry.
C10_FullRejected ==
    /\ [](\A p \in Callers :
            /\ pc[p] = "w_full" => pre.top = pre.max /\ Snapshot = pre
            /\ pc[p] \in {"w_top", "w_store"} => pre.top < pre.max
            /\ (pc[p] = "exit" /\ cli[p].cmd = "push" /\ ret[p] = 0 - ERANGE) =>
                   cli[p].status = ERANGE)
    /\ [][\A p \in Callers :
            (pc[p] = "w_full" /\ pc'[p] # "w_full") =>
                /\ pc'[p] = "ret" /\ ret'[p] = 0 - ERANGE
                /\ UNCHANGED <<buf, top, max, heap>>]_vars

\* `push` has exited with ERANGE and the stack is still full
C10_Witness ==
    \E p \in Callers :
        /\ pc[p] = "exit" /\ cli[p].cmd = "push" /\ cli[p].status = ERANGE
        /\ top = max

(* kernel_stack commands next to callers that read() the device directly,   *)
(* with a good or a bad user buffer                                         *)
NextPop ==
    \/ NextCli
    \/ \E p \in Callers : sys_read(p, MaxCalls)

SpecPop == Init /\ [][NextPop]_vars

\* C11: a pop takes the Empty exit exactly when it finds count = 0; it then
\* returns 0 (no error, whatever the caller's buffer is), leaving buffer,
\* count, capacity, entries and the caller's buffer as they were, so the
\* next pop finds the same; `pop` prints NULL and `unwind` stops, status 0.
C11_EmptyPop ==
    /\ [](\A p \in Callers :
            /\ pc[p] = "r_empty" => pre.top = 0 /\ top = 0 /\ Snapshot = pre
            /\ pc[p] \in {"r_top", "r_dec", "r_load", "r_unlock"} => pre.top > 0
            /\ (pc[p] = "exit" /\ call[p].op = "read" /\ ret[p] = 0) =>
                  /\ cli[p].status = 0
                  /\ cli[p].cmd = "pop" => out[p] = <<"NULL">>)
    /\ [][\A p \in Callers :
            (pc[p] = "r_empty" /\ pc'[p] # "r_empty") =>
                /\ pc'[p] = "ret" /\ ret'[p] = 0
                /\ ubuf'[p] = ubuf[p]
                /\ UNCHANGED <<buf, top, max, heap>>]_vars

\* `pop` has printed NULL and a read() with a bad buffer has returned 0
\* too: two pops of the empty stack, both Empty
C11_Witness ==
    \E p, q \in Callers :
        /\ pc[p] = "exit" /\ cli[p].cmd = "pop" /\ out[p] = <<"NULL">>
        /\ pc[q] = "ret" /\ call[q].op = "read" /\ ~call[q].ok /\ ret[q] = 0
        /\ top = 0

\* C12: a push that finds count < capacity does not take the Full exit; when
\* it has stored, the value it was given sits at index (old count), count
\* is the old count plus one, and buffer, capacity and the entries below the
\* old count are the old ones; it then returns sizeof(int).
C12_PushEffect ==
    /\ [](\A p \in Callers :
            /\ pc[p] = "w_full" => ~(pre.top < pre.max)
            /\ pc[p] = "w_unlock" =>
                  /\ pre.top < pre.max
                  /\ val[p] = call[p].uval
                  /\ Written(heap, buf, pre.top)
                  /\ heap[buf].cells[pre.top] = val[p]
                  /\ top = pre.top + 1
                  /\ buf = pre.buf /\ max = pre.max
                  /\ Contents = Append(pre.items, val[p]))
    /\ [][\A p \in Callers :
            (pc[p] = "w_unlock" /\ pc'[p] # "w_unlock") =>
                /\ pc'[p] = "ret" /\ ret'[p] = SIZEOF_INT
                /\ UNCHANGED <<buf, top, max, heap>>]_vars

\* a push onto a stack that already held an entry has stored its value
C12_Witness ==
    \E p \in Callers :
        pc[p] = "w_unlock" /\ pre.top >= 1 /\ top = pre.top + 1 /\ top < max

\* the read of p went through the guard and found an entry to take
TookEntry(p) ==
    call[p].op = "read" /\ call[p].cnt >= SIZEOF_INT /\ ret[p] # 0

\* C13: a pop that finds count > 0 leaves count one lower, capacity, buffer
\* and the entries below the old top as they were, and returns to its caller
\* the entry that was at index (old count - 1), read under the guard.
C13_PopEffect ==
    \A p \in Callers :
        /\ pc[p] = "r_unlock" =>
              /\ pre.top > 0
              /\ top = pre.top - 1
              /\ buf = pre.buf /\ max = pre.max
              /\ Contents = SubSeq(pre.items, 1, pre.top - 1)
              /\ val[p] = pre.items[pre.top]
        /\ (pc[p] = "ret" /\ TookEntry(p)) =>
              ret[p] = SIZEOF_INT /\ ubuf[p] = val[p]

\* what remains of C13 for the pops whose caller's buffer can be written:
\* the effect on the stack as above, and the value read under the guard is
\* the one delivered, whatever was pushed or resized after the unlock
C13_PopEffectWithGoodBuffer ==
    \A p \in Callers :
        /\ pc[p] = "r_unlock" =>
              /\ pre.top > 0
              /\ top = pre.top - 1
              /\ buf = pre.buf /\ max = pre.max
              /\ Contents = SubSeq(pre.items, 1, pre.top - 1)
              /\ val[p] = pre.items[pre.top]
        /\ (pc[p] = "ret" /\ TookEntry(p) /\ call[p].ok) =>
              ret[p] = SIZEOF_INT /\ ubuf[p] = val[p] /\ ubuf[p] = expect[p].out

\* C14: a pop that went through the guard returns sizeof(int) or 0, never an
\* error, and when it took an entry off the stack the caller's buffer holds
\* that entry.
C14_PopNeverFails ==
    \A p \in Callers :
        (pc[p] = "ret" /\ call[p].op = "read" /\ call[p].cnt >= SIZEOF_INT) =>
            /\ ret[p] \in {0, SIZEOF_INT}
            /\ expect[p].ret # 0 => ubuf[p] = val[p]

\* the pops that fail after the guard: those whose copy_to_user fails
C14_FailsOnlyOnBadBuffer ==
    \A p \in Callers :
        (pc[p] = "ret" /\ call[p].op = "read" /\ call[p].cnt >= SIZEOF_INT) =>
            /\ ret[p] \in {0, SIZEOF_INT, 0 - EFAULT}
            /\ ret[p] = 0 - EFAULT => ~call[p].ok /\ expect[p].ret # 0
            /\ (expect[p].ret # 0 /\ call[p].ok) => ubuf[p] = val[p]

\* the call p is in has failed or can only fail: turned away at the entry,
\* at the Full exit, at the failed allocation
FailsEarly(p) ==
    \/ pc[p] = "ret" /\ ret[p] < 0 /\ call[p].op # "read"
    \/ pc[p] = "ret" /\ ret[p] = 0 - EINVAL /\ call[p].op = "read"
    \/ pc[p] = "w_full"
    \/ pc[p] = "i_nomem"

\* ... or a pop past the emptiness test whose copy_to_user will fail
FailsAtCopy(p) ==
    \/ pc[p] \in {"r_top", "r_dec", "r_load", "r_unlock", "r_copy"} /\ ~call[p].ok
    \/ pc[p] = "ret" /\ ret[p] = 0 - EFAULT /\ call[p].op = "read"

\* C15: no step of a push, pop or resize call that returns a failure changes
\* buffer, count, capacity or entries, and at its failure exit under the
\* guard the stack is as the call found it.
C15_NoPartialMutation ==
    /\ [](\A p \in Callers :
            (pc[p] \in {"w_full", "i_nomem"}
             \/ (pc[p] = "r_unlock" /\ ~call[p].ok)) => Snapshot = pre)
    /\ [][\A p \in Callers :
            (pc'[p] # pc[p]
             /\ (FailsEarly(p) \/ FailsEarly(p)' \/ FailsAtCopy(p) \/ FailsAtCopy(p)')) =>
                UNCHANGED <<buf, top, max, heap>>]_vars

\* the same for every failure but the pop's failed copy_to_user
C15_ExceptFailedCopy ==
    /\ [](\A p \in Callers : pc[p] \in {"w_full", "i_nomem"} => Snapshot = pre)
    /\ [][\A p \in Callers :
            (pc'[p] # pc[p] /\ (FailsEarly(p) \/ FailsEarly(p)')) =>
                UNCHANGED <<buf, top, max, heap>>]_vars

\* the positions at which the statement a caller executes next reads or
\* writes s->buf (or an entry), s->top or s->max
AccessSteps == {"r_check", "r_top", "r_dec", "r_load",
                "w_check", "w_top", "w_store",
                "i_clamp", "i_copy", "i_free", "i_swap", "i_setmax", "i_log"}

\* C16: a caller about to read or write the buffer, count or capacity holds
\* the guard.
C16_GuardDiscipline ==
    \A p \in Callers : pc[p] \in AccessSteps => lock = p

\* every access but the one made by pr_info is made under the guard
C16_ExceptLog ==
    \A p \in Callers : pc[p] \in AccessSteps \ {"i_log"} => lock = p

\* what the unguarded read can see: the size a resize logs is the size it set
C16_LogsOwnSize ==
    \A p \in Callers :
        (pc[p] = "ret" /\ call[p].op = "ioctl" /\ ret[p] = 0) =>
            printed[p] = new_max[p]

(* Callers that never stop calling: whenever the device is back in the      *)
(* state stack_init left it in, with every caller idle or waiting for the   *)
(* guard, the budget of calls is renewed. Every                             *)
(* caller that is inside a system call gets to run (weak fairness of its    *)
(* steps), and the mutex is fair: a caller that could take it again and     *)
(* again does take it (strong fairness of its mutex_lock).                  *)
LiveCalls == 2

more_calls ==
    /\ calls = LiveCalls
    /\ buf = 1 /\ top = 0 /\ max = DEFAULT_SIZE /\ heap[buf].cells = NoCells
    /\ unpopped = <<>> /\ lock = NoOwner
    /\ \A p \in Callers : pc[p] \in {"idle"} \cup Waiting
    /\ calls' = 0
    /\ UNCHANGED <<kern, pc, call, locals, ret, printed, ubuf, cli, out, hist, run>>

Acquire(p) == read_lock(p) \/ write_lock(p) \/ ioctl_lock(p)

NextLive ==
    \/ more_calls
    \/ \E p \in Callers :
          \/ sys_read(p, LiveCalls) \/ sys_write(p, LiveCalls) \/ sys_ioctl(p, LiveCalls)
          \/ user_done(p)
          \/ Driver(p)

Scheduled == \A p \in Callers : WF_vars(Driver(p))
FairLock == \A p \in Callers : SF_vars(Acquire(p))

SpecLive == Init /\ [][NextLive]_vars /\ Scheduled /\ FairLock

\* the same callers with a mutex that is not fair
SpecUnfairLock == Init /\ [][NextLive]_vars /\ Scheduled

\* C17: under a fair mutex a call that waits for the guard gets it, and
\* whoever holds the guard releases it and returns: after every exit
\* (success, Full, Empty, failed allocation) the caller no longer holds the
\* guard; a push or pop that gets the guard after a resize finds the whole
\* of that resize: a live buffer of the new capacity with the kept entries.
C17_EventualProgress ==
    /\ [](\A p \in Callers :
            /\ pc[p] \notin Sections => lock # p
            /\ pc[p] \in {"r_check", "w_check"} =>
                  heap[buf].live /\ heap[buf].size = max /\ Abs = seq_stack)
    /\ \A p \in Callers :
          /\ (pc[p] \in Waiting) ~> (lock = p)
          /\ (lock = p) ~> (pc[p] = "ret" /\ lock # p)

\* a pop waits for the guard while a resize copies the entries
C17_Witness ==
    \E p, q \in Callers :
        pc[p] = "r_lock" /\ pc[q] = "i_copy" /\ lock = q /\ calls = LiveCalls

\* C18: capacity changes only in a resize (to the requested size), never in
\* a push or a pop; count goes down only by one in a pop, or to the
\* requested capacity in a resize that shrinks below it, and goes up only by
\* one in a push that stores.
C18_Frame ==
    [][/\ max' # max =>
            \E p \in Callers :
                /\ call[p].op = "ioctl" /\ pc[p] = "i_setmax" /\ pc'[p] # pc[p]
                /\ max' = new_max[p]
       /\ top' < top =>
            \E p \in Callers :
                /\ pc'[p] # pc[p]
                /\ \/ call[p].op = "read" /\ pc[p] = "r_dec" /\ top' = top - 1
                   \/ call[p].op = "ioctl" /\ pc[p] = "i_clamp"
                      /\ new_max[p] < top /\ top' = new_max[p]
       /\ top' > top =>
            \E p \in Callers :
                /\ call[p].op = "write" /\ pc[p] = "w_store" /\ pc'[p] = "w_unlock"
                /\ top' = top + 1
       /\ \A p \in Callers :
            (pc'[p] # pc[p] /\ call[p].op \in {"read", "write"}) => max' = max]_vars

\* a resize has brought the count down to its capacity without any pop
C18_Witness ==
    \E p \in Callers :
        pc[p] = "i_copy" /\ top = new_max[p] /\ pre.top > top /\ max = pre.max

(* kernel_stack commands whose processes get to run: weak fairness of the   *)
(* steps inside the driver and of unwind's loop, a fair mutex               *)
UnwindLoops == \A p \in Callers : WF_vars(cli_unwind_next(p))

SpecCliFair == Init /\ [][NextCli]_vars /\ Scheduled /\ FairLock /\ UnwindLoops

\* p's unwind opened the device and has left its loop
UnwindDone(p) == pc[p] = "exit" /\ cli[p].cmd = "unwind" /\ call[p].op = "read"

\* the entries, top first, as unwind prints them
TopFirst(items) ==
    [i \in 1..Len(items) |-> ToString(items[Len(items) - i + 1])]

\* unwind reads again after every value, printing it, and leaves its loop
\* (status 0) at the first read that returns 0, never on an error; once
\* started it comes to its exit
UnwindLoop ==
    /\ [](\A p \in Callers : UnwindDone(p) => ret[p] = 0 /\ cli[p].status = 0)
    /\ [][\A p \in Callers :
            (cli[p].cmd = "unwind" /\ pc[p] = "ret" /\ pc'[p] # "ret") =>
                IF ret[p] > 0
                THEN pc'[p] = "r_lock" /\ out'[p] = Append(out[p], ToString(ubuf[p]))
                ELSE pc'[p] = "exit" /\ out'[p] = out[p]]_vars
    /\ \A p \in Callers : (cli[p].cmd = "unwind") ~> (pc[p] = "exit")

\* C19 as stated: unwind pops until the first Empty, printing the values;
\* when no other caller has pushed while it ran, it has printed the entries
\* the stack held when it began, top first (initial count + 1 pops), and
\* the stack is empty.
C19_Original ==
    /\ UnwindLoop
    /\ [](\A p \in Callers :
            (UnwindDone(p) /\ ~run[p].pushed) =>
                out[p] = TopFirst(run[p].items) /\ top = 0)

\* C19 (amended): the same when no other caller has changed the count while
\* it ran, neither by a push nor by a pop nor by a shrinking resize; with
\* no pusher but others taking entries it ends on an empty stack after at
\* most that many pops.
C19_UnwindAlone ==
    /\ UnwindLoop
    /\ [](\A p \in Callers :
            /\ (UnwindDone(p) /\ ~run[p].pushed /\ ~run[p].taken) =>
                  out[p] = TopFirst(run[p].items) /\ top = 0
            /\ (UnwindDone(p) /\ ~run[p].pushed) =>
                  top = 0 /\ Len(out[p]) <= Len(run[p].items))

\* unwind has printed -1 and then 2, pushed in the other order, undisturbed
C19_Witness ==
    \E p \in Callers :
        /\ UnwindDone(p) /\ ~run[p].pushed /\ ~run[p].taken
        /\ out[p] = <<"-1", "2">>


\* a capacity, as the magnitude of a long
LongOf(v) == <<v % Limb, v \div Limb, 0, 0>>

\* p runs set-size with a text that parses to some N > 0
GoodResize(p) ==
    cli[p].cmd = "set-size" /\ Len(cli[p].args) = 1 /\ ~BadSize(cli[p].args[1])

\* what every set-size command does, whatever N is: a text that is no
\* integer > 0 ends in EINVAL before the device is opened; the capacity
\* changes in one step only, the assignment of s->max, and a command that
\* reports success has had its ioctl return 0
SetSizeShape ==
    /\ [](\A p \in Callers :
            /\ (cli[p].cmd = "set-size" /\ Len(cli[p].args) = 1
                /\ BadSize(cli[p].args[1])) =>
                   pc[p] = "exit" /\ cli[p].status = EINVAL /\ call[p] = NoCall
            /\ (GoodResize(p) /\ pc[p] = "exit" /\ cli[p].status = 0) =>
                   call[p].op = "ioctl" /\ ret[p] = 0
            /\ (GoodResize(p) /\ pc[p] \in {"i_setmax", "i_unlock", "i_log"}) =>
                   cli[p].status = 0)
    /\ [][\A p \in Callers :
            (cli'[p].cmd = "set-size" /\ pc'[p] # pc[p] /\ pc[p] # "i_setmax") =>
                max' = max]_vars

\* C20: set-size N with N > 0 makes the capacity exactly N, or fails and
\* leaves it alone, for every N of the long range; N <= 0 or no integer
\* fails with EINVAL without touching the device.
C20_SetSizeExact ==
    /\ SetSizeShape
    /\ [][\A p \in Callers :
            (GoodResize(p) /\ pc[p] = "i_setmax" /\ pc'[p] # pc[p]) =>
                LongOf(max') = strtol(cli[p].args[1]).mag]_vars

\* C20 for the values an unsigned int holds: such an N becomes the capacity
\* exactly; a larger one is cut to its low 32 bits before the request
C20_ExactWithin32Bits ==
    /\ SetSizeShape
    /\ [][\A p \in Callers :
            (GoodResize(p) /\ pc[p] = "i_setmax" /\ pc'[p] # pc[p]) =>
                LET n == strtol(cli[p].args[1]).mag IN
                    /\ LongOf(max')[1] = n[1] /\ LongOf(max')[2] = n[2]
                    /\ (n[3] = 0 /\ n[4] = 0) => LongOf(max') = n]_vars

\* set-size 1 has made the capacity 1
C20_Witness ==
    \E p \in Callers :
        /\ GoodResize(p) /\ cli[p].args = <<<<"1">>>>
        /\ pc[p] = "i_unlock" /\ max = 1 /\ pre.max # 1
====
